---- MODULE Spec2Model ----
(***************************************************************************)
(* A model of AutoPodcastGPT's text-to-speech pipeline (src/main.go):      *)
(*   - splitIntoSentences / splitTextIntoChunks, as operators on strings   *)
(*     (a string is a sequence of one-character strings, len() = Len());   *)
(*   - main, generateTTSAudioParallel, its task goroutines, its progress   *)
(*     goroutine and concatenateMP3Files, as a state machine.              *)
(* Chunk indices are 0-based, as in the Go code.                           *)
(***************************************************************************)
EXTENDS Integers, Sequences, FiniteSets, TLC

VARIABLES
    \* ---- the text functions (SpecChunk) ----
    cpc,          \* "input" | "sentences" | "chunks" | "off"
    text,         \* the text given to the function
    maxSize,      \* the maxSize given to splitTextIntoChunks
    sentences,    \* the result of splitIntoSentences(text)
    chunks,       \* the result of splitTextIntoChunks(text, maxSize)
    \* ---- the pipeline (Spec) ----
    mpc,          \* where main / generateTTSAudioParallel is
    n,            \* len(chunks) in main
    spawned,      \* the loop index of "for i, chunk := range chunks"
    tpc,          \* each task goroutine's position
    cap,          \* the capacity of the channel semaphore
    semaphore,    \* number of elements in the channel semaphore
    wg,           \* the WaitGroup counter
    errors,       \* the channel errors: a queue of error records
    progress,     \* number of elements in the channel progress
    closed,       \* the set of closed channels
    opc,          \* where the progress goroutine is
    completed,    \* the progress goroutine's local counter
    audioFiles,   \* the slice audioFiles: 0 is "", k > 0 is chunk_k.mp3
    disk,         \* tmpDir's files: file number -> content
    outcome,      \* what generateTTSAudio returned to each task ("none" before)
    calls,        \* history: number of generateTTSAudio calls per chunk
    failOrder,    \* history: the indices of the failed calls, as recorded
    late,         \* history: a task was admitted after a failure was recorded
    ret,          \* what generateTTSAudioParallel returned
    tmpDir,       \* "none" | "exists" | "removed"
    final,        \* podcast_final.mp3 as this run left it
    apc,          \* index of the next file concatenateMP3Files copies
    exit,         \* "running" | "ok" (main returned) | "fail" (os.Exit(1))
    \* ---- one call of generateTTSAudio (SpecTTS) ----
    gpc,          \* where the call is
    requests,     \* number of requests sent to the service
    outFile,      \* "absent" | "created" | "written": the output file
    gerr,         \* the error the call returned, "nil" for none
    \* ---- one call of generatePodcastText (SpecGen) ----
    xpc,          \* where the call is
    sent,         \* number of generation requests sent to the service
    duration,     \* stringToInt(p.Duration), the target in minutes
    firstOutcome, \* "none" | "ok" | the error of generateText(0)
    firstText,    \* the text generateText(0) returned
    content,      \* the local variable content
    extOutcome,   \* "none" | "accepted" | "rejected" | what failed
    genRet        \* what generatePodcastText returned: [text, err]

chunkVars == <<cpc, text, maxSize, sentences, chunks>>
pipeVars == <<mpc, n, cap, spawned, tpc, semaphore, wg, errors, progress,
              closed, opc, completed, audioFiles, disk, outcome, calls,
              failOrder, late, ret, tmpDir, final, apc, exit>>
ttsVars == <<gpc, requests, outFile, gerr>>
genVars == <<xpc, sent, duration, firstOutcome, firstText, content,
             extOutcome, genRet>>
vars == <<chunkVars, pipeVars, ttsVars, genVars>>

-----------------------------------------------------------------------------
(* Bounds of the model *)

\* texts are built from at most MaxTokens tokens
MaxTokens == 4
\* maxSize ranges over 1..MaxMaxSize
MaxMaxSize == 3

-----------------------------------------------------------------------------
(* Strings *)

\* the marker splitIntoSentences inserts after each separator
SepMarker == <<"|", "S", "E", "P", "|">>

\* the separators, in the order the loop replaces them
separators == <<".", "?", "!">>

\* the tokens texts are built from: a letter, a blank, the three
\* terminators and the marker's own text
Tokens == {<<"a">>, <<" ">>, <<".">>, <<"?">>, <<"!">>, SepMarker}

RECURSIVE Flatten(_)
Flatten(ss) == IF ss = <<>> THEN <<>> ELSE Head(ss) \o Flatten(Tail(ss))

Texts == {Flatten(ts) : ts \in UNION {[1..k -> Tokens] : k \in 0..MaxTokens}}

IsSpace(c) == c = " "

Drop(s, k) == SubSeq(s, k + 1, Len(s))

HasPrefix(s, p) == Len(s) >= Len(p) /\ SubSeq(s, 1, Len(p)) = p

RECURSIVE TrimLeft(_)
TrimLeft(s) ==
    IF s # <<>> /\ IsSpace(Head(s)) THEN TrimLeft(Tail(s)) ELSE s

RECURSIVE TrimRight(_)
TrimRight(s) ==
    IF s # <<>> /\ IsSpace(s[Len(s)])
    THEN TrimRight(SubSeq(s, 1, Len(s) - 1))
    ELSE s

\* strings.TrimSpace
TrimSpaceLeft(s) == TrimLeft(s)
TrimSpace(s) == TrimRight(TrimLeft(s))

\* strings.ReplaceAll(s, old, new) for a one-character old
RECURSIVE ReplaceAll(_, _, _)
ReplaceAll(s, old, new) ==
    IF s = <<>> THEN <<>>
    ELSE (IF Head(s) = old THEN new ELSE <<Head(s)>>)
         \o ReplaceAll(Tail(s), old, new)

\* strings.Split(s, sep), sep non-empty: cut at each occurrence of sep,
\* found from left to right without overlap; cur is the piece being read
RECURSIVE SplitFrom(_, _, _)
SplitFrom(s, sep, cur) ==
    IF s = <<>> THEN <<cur>>
    ELSE IF HasPrefix(s, sep)
         THEN <<cur>> \o SplitFrom(Drop(s, Len(sep)), sep, <<>>)
         ELSE SplitFrom(Tail(s), sep, Append(cur, Head(s)))

Split(s, sep) == SplitFrom(s, sep, <<>>)

\* strings.Fields(s): the maximal runs of non-blank characters; cur is the
\* word being read
RECURSIVE FieldsFrom(_, _)
FieldsFrom(s, cur) ==
    IF s = <<>> THEN (IF cur = <<>> THEN <<>> ELSE <<cur>>)
    ELSE IF IsSpace(Head(s))
         THEN (IF cur = <<>> THEN <<>> ELSE <<cur>>) \o FieldsFrom(Tail(s), <<>>)
         ELSE FieldsFrom(Tail(s), Append(cur, Head(s)))

Fields(s) == FieldsFrom(s, <<>>)

\* s without its blanks
RECURSIVE StripSpace(_)
StripSpace(s) ==
    IF s = <<>> THEN <<>>
    ELSE (IF IsSpace(Head(s)) THEN <<>> ELSE <<Head(s)>>) \o StripSpace(Tail(s))

-----------------------------------------------------------------------------
(* splitIntoSentences *)

\* the loop over separators: replace each sep by sep + "|SEP|"
RECURSIVE MarkSeparators(_, _)
MarkSeparators(s, seps) ==
    IF seps = <<>> THEN s
    ELSE MarkSeparators(ReplaceAll(s, Head(seps), <<Head(seps)>> \o SepMarker),
                        Tail(seps))

splitIntoSentences(t) ==
    LET parts == Split(MarkSeparators(t, separators), SepMarker)
    IN  [i \in 1..Len(parts) |-> TrimSpace(parts[i])]

-----------------------------------------------------------------------------
(* splitTextIntoChunks *)

\* the test before a word is added to partialSentence
WordOverflowsNoSpace(partialLen, wordLen, max) == partialLen + wordLen > max
WordOverflowsNever(partialLen, wordLen, max) == FALSE
WordOverflowsEarly(partialLen, wordLen, max) ==
    partialLen + wordLen + 1 >= max
WordOverflows(partialLen, wordLen, max) == partialLen + wordLen + 1 > max

\* the test before a sentence is added to currentChunk
SentenceOverflows(currentLen, sentenceLen, max) ==
    currentLen + sentenceLen + 1 > max

\* the loop over the words of a sentence longer than maxSize; st is
\* [chunks, partial] (partial is partialSentence)
RECURSIVE PackWords(_, _, _)
PackWords(words, max, st) ==
    IF words = <<>> THEN st
    ELSE LET word == Head(words)
             flushed ==
                 IF WordOverflows(Len(st.partial), Len(word), max)
                    /\ Len(st.partial) > 0
                 THEN [chunks |-> Append(st.chunks, st.partial), partial |-> <<>>]
                 ELSE st
             joined ==
                 IF Len(flushed.partial) > 0
                 THEN flushed.partial \o <<" ">> \o word
                 ELSE word
         IN  PackWords(Tail(words), max, [flushed EXCEPT !.partial = joined])

\* the body of "if len(sentence) > maxSize"; st is [chunks, current]
\* (current is currentChunk)
LongSentence(sentence, max, st) ==
    LET start == IF Len(st.current) > 0
                 THEN Append(st.chunks, st.current)
                 ELSE st.chunks
        packed == PackWords(Fields(sentence), max,
                            [chunks |-> start, partial |-> <<>>])
    IN  [chunks  |-> IF Len(packed.partial) > 0
                     THEN Append(packed.chunks, packed.partial)
                     ELSE packed.chunks,
         current |-> <<>>]

\* "Normal sentence processing"
NormalSentence(sentence, max, st) ==
    LET flushed ==
            IF SentenceOverflows(Len(st.current), Len(sentence), max)
            THEN [chunks |-> Append(st.chunks, st.current), current |-> <<>>]
            ELSE st
        joined ==
            IF Len(flushed.current) > 0
            THEN flushed.current \o <<" ">> \o sentence
            ELSE sentence
    IN  [flushed EXCEPT !.current = joined]

\* the loop over the sentences
RECURSIVE ChunkLoop(_, _, _)
ChunkLoop(ss, max, st) ==
    IF ss = <<>> THEN st
    ELSE LET sentence == TrimSpace(Head(ss))
         IN  IF sentence = <<>> THEN ChunkLoop(Tail(ss), max, st)
             ELSE IF Len(sentence) > max
                  THEN ChunkLoop(Tail(ss), max, LongSentence(sentence, max, st))
                  ELSE ChunkLoop(Tail(ss), max, NormalSentence(sentence, max, st))

splitTextIntoChunks(t, max) ==
    LET st == ChunkLoop(splitIntoSentences(t), max,
                        [chunks |-> <<>>, current |-> <<>>])
    IN  IF Len(st.current) > 0 THEN Append(st.chunks, st.current) ELSE st.chunks

-----------------------------------------------------------------------------
(* The text functions, applied to every text and maxSize of the bounds *)

\* the empty string
NoText == [id |-> "", words |-> 0, bytes |-> 0]

\* generatePodcastText is not called
GenIdle ==
    /\ xpc = "off" /\ sent = 0 /\ duration = 0
    /\ firstOutcome = "none" /\ firstText = NoText /\ content = NoText
    /\ extOutcome = "none" /\ genRet = [text |-> NoText, err |-> "none"]

\* generateTTSAudio is not called
TTSIdle == gpc = "off" /\ requests = 0 /\ outFile = "absent" /\ gerr = "nil"

ChunkIdle ==
    /\ cpc = "off" /\ text = <<>> /\ maxSize = 1
    /\ sentences = <<>> /\ chunks = <<>>
    /\ TTSIdle
    /\ GenIdle

InitChunk ==
    /\ cpc = "input"
    /\ text \in Texts
    /\ maxSize \in 1..MaxMaxSize
    /\ sentences = <<>>
    /\ chunks = <<>>
    /\ TTSIdle
    /\ GenIdle

CallSplitIntoSentences ==
    /\ cpc = "input"
    /\ sentences' = splitIntoSentences(text)
    /\ cpc' = "sentences"
    /\ UNCHANGED <<text, maxSize, chunks, pipeVars, ttsVars, genVars>>

CallSplitTextIntoChunks ==
    /\ cpc = "input"
    /\ chunks' = splitTextIntoChunks(text, maxSize)
    /\ cpc' = "chunks"
    /\ UNCHANGED <<text, maxSize, sentences, pipeVars, ttsVars, genVars>>

-----------------------------------------------------------------------------
(* The pipeline: main from step 5 on, generateTTSAudioParallel,            *)
(* generateTTSAudio, concatenateMP3Files.                                  *)
(* A task takes three steps: the send on semaphore (TaskAcquire), the call *)
(* of generateTTSAudio with the statement that follows it (TaskCall: the   *)
(* write of the task's own slot and the send on a channel that has room    *)
(* for every task), and its two deferred calls (TaskExit).                 *)

\* a run has up to MaxChunks chunks, of which up to MaxFailures fail, or
\* more chunks, up to MaxWaiting more than the semaphore admits, of which up
\* to MaxBigFailures fail
MaxChunks == 3
MaxFailures == 2
MaxWaiting == 1
MaxBigFailures == 1

\* semaphore := make(chan struct{}, 5)
SemaphoreCap == 5

Indices == 0..(n - 1)

\* the most generateTTSAudio calls that fail in this run
Budget == IF n <= MaxChunks THEN MaxFailures ELSE MaxBigFailures

\* chunk_<index+1>.mp3, named by its number
ChunkFile(index) == index + 1

\* the "chunk %d" of a task's error
ErrorTagIndex(index) == index
ErrorTag(index) == index + 1

\* the bytes the service answers for chunk index
Audio(index) == <<index>>

NoError == [chunk |-> 0]

WriteFile(d, k, audio) ==
    [j \in (DOMAIN d) \cup {k} |-> IF j = k THEN audio ELSE d[j]]

\* the tasks that are inside generateTTSAudio
InCall == {i \in Indices : tpc[i] = "call"}

\* the tasks generateTTSAudio has failed
Failed == {i \in Indices : outcome[i] \notin {"none", "ok"}}

\* nothing of the run has happened yet
InitRun ==
    /\ spawned = 0
    /\ tpc = [i \in 0..(n - 1) |-> "unborn"]
    /\ semaphore = 0
    /\ wg = 0
    /\ errors = <<>>
    /\ progress = 0
    /\ closed = {}
    /\ opc = "unborn"
    /\ completed = 0
    /\ audioFiles = <<>>
    /\ disk = <<>>
    /\ outcome = [i \in 0..(n - 1) |-> "none"]
    /\ calls = [i \in 0..(n - 1) |-> 0]
    /\ failOrder = <<>>
    /\ late = FALSE
    /\ ret = [files |-> <<>>, err |-> NoError]
    /\ tmpDir = "none"
    /\ final = [created |-> FALSE, data |-> <<>>]
    /\ apc = 0
    /\ exit = "running"

\* main has its chunks and is about to make tmpDir
InitPipe ==
    /\ mpc = "mkdir"
    /\ n \in 0..(SemaphoreCap + MaxWaiting)
    /\ cap = SemaphoreCap
    /\ InitRun

\* the same, with the capacity of the semaphore as a parameter of the run:
\* every capacity from 1 to the 5 of the code, on runs of up to MaxChunks
\* chunks
InitCap ==
    /\ mpc = "mkdir"
    /\ n \in 0..MaxChunks
    /\ cap \in 1..SemaphoreCap
    /\ InitRun

PipeIdle ==
    /\ mpc = "off" /\ n = 0 /\ cap = SemaphoreCap /\ spawned = 0 /\ tpc = <<>>
    /\ semaphore = 0 /\ wg = 0 /\ errors = <<>> /\ progress = 0
    /\ closed = {} /\ opc = "unborn" /\ completed = 0 /\ audioFiles = <<>>
    /\ disk = <<>> /\ outcome = <<>> /\ calls = <<>> /\ failOrder = <<>>
    /\ late = FALSE
    /\ ret = [files |-> <<>>, err |-> NoError] /\ tmpDir = "none"
    /\ final = [created |-> FALSE, data |-> <<>>] /\ apc = 0
    /\ exit = "running"

\* os.Exit(1): the process ends at once, deferred calls do not run
OsExit ==
    /\ mpc' = "exited"
    /\ exit' = "fail"

\* tmpDir, err := os.MkdirTemp(...); defer os.RemoveAll(tmpDir)
MainMkdirTemp ==
    /\ mpc = "mkdir"
    /\ \/ /\ tmpDir' = "exists"
          /\ mpc' = "start"
          /\ UNCHANGED exit
       \/ /\ OsExit
          /\ UNCHANGED tmpDir
    /\ UNCHANGED <<n, cap, spawned, tpc, semaphore, wg, errors, progress, closed,
                   opc, completed, audioFiles, disk, outcome, calls,
                   failOrder, late, ret, final, apc, chunkVars,
                   ttsVars, genVars>>

\* generateTTSAudioParallel up to its loop: the slice, the channels, the
\* progress goroutine
ParStart ==
    /\ mpc = "start"
    /\ audioFiles' = [i \in Indices |-> 0]
    /\ opc' = "recv"
    /\ mpc' = IF n = 0 THEN "wgwait" ELSE "spawn"
    /\ UNCHANGED <<n, cap, spawned, tpc, semaphore, wg, errors, progress, closed,
                   completed, disk, outcome, calls, failOrder, late, ret,
                   tmpDir, final, apc, exit, chunkVars,
                   ttsVars, genVars>>

\* one turn of "for i, chunk := range chunks": wg.Add(1); go func(...)
MainSpawn ==
    /\ mpc = "spawn"
    /\ wg' = wg + 1
    /\ tpc' = [tpc EXCEPT ![spawned] = "wait"]
    /\ spawned' = spawned + 1
    /\ mpc' = IF spawned + 1 = n THEN "wgwait" ELSE "spawn"
    /\ UNCHANGED <<n, cap, semaphore, errors, progress, closed, opc, completed,
                   audioFiles, disk, outcome, calls, failOrder, late, ret,
                   tmpDir, final, apc, exit, chunkVars,
                   ttsVars, genVars>>

\* whether "semaphore <- struct{}{}" can proceed
CanAcquireAlways(count) == TRUE
CanAcquire(count) == count < cap

\* semaphore <- struct{}{}, then the task enters generateTTSAudio
TaskAcquire(i) ==
    /\ tpc[i] = "wait"
    /\ CanAcquire(semaphore)
    /\ semaphore' = semaphore + 1
    /\ tpc' = [tpc EXCEPT ![i] = "call"]
    /\ calls' = [calls EXCEPT ![i] = @ + 1]
    /\ late' = (late \/ errors # <<>>)
    /\ UNCHANGED <<failOrder, mpc, n, cap, spawned, wg, errors, progress, closed,
                   opc, completed, audioFiles, disk, outcome, ret, tmpDir,
                   final, apc, exit, chunkVars,
                   ttsVars, genVars>>

\* the slot a task writes its file name to
SlotNext(index) == (index + 1) % n
Slot(index) == index

\* errors := make(chan error, len(chunks));
\* progress := make(chan int, len(chunks))
ChannelCapShort == n - 1
ChannelCap == n

\* generateTTSAudio(text, voice, chunkFile) returns nil: the request was
\* sent and the answer is in chunkFile; then
\* "audioFiles[index] = chunkFile; progress <- 1"
CallOk(i) ==
    /\ outcome' = [outcome EXCEPT ![i] = "ok"]
    /\ disk' = WriteFile(disk, ChunkFile(i), Audio(i))
    /\ audioFiles' = [audioFiles EXCEPT ![Slot(i)] = ChunkFile(i)]
    /\ progress < ChannelCap
    /\ progress' = progress + 1
    /\ UNCHANGED <<errors, failOrder>>

\* generateTTSAudio returns an error (an empty text chunk, a failed request,
\* a status other than 200, a failed or empty write); then
\* "errors <- fmt.Errorf("chunk %d: %w", index+1, err); return".
\* A file the failed call may have left in tmpDir is named by no element of
\* audioFiles and is read by nothing, so disk does not record it.
CallErrorSignalling(i) ==
    /\ Cardinality(Failed) < Budget
    /\ outcome' = [outcome EXCEPT ![i] = "error"]
    /\ Len(errors) < ChannelCap
    /\ errors' = Append(errors, [chunk |-> ErrorTag(i)])
    /\ failOrder' = Append(failOrder, i)
    /\ progress < ChannelCap
    /\ progress' = progress + 1
    /\ UNCHANGED <<disk, audioFiles>>
CallError(i) ==
    /\ Cardinality(Failed) < Budget
    /\ outcome' = [outcome EXCEPT ![i] = "error"]
    /\ Len(errors) < ChannelCap
    /\ errors' = Append(errors, [chunk |-> ErrorTag(i)])
    /\ failOrder' = Append(failOrder, i)
    /\ UNCHANGED <<disk, audioFiles, progress>>

\* err := generateTTSAudio(text, voice, chunkFile) and what the task does
\* with err
TaskCall(i) ==
    /\ tpc[i] = "call"
    /\ CallOk(i) \/ CallError(i)
    /\ tpc' = [tpc EXCEPT ![i] = "release"]
    /\ UNCHANGED <<mpc, n, cap, spawned, semaphore, wg, closed, opc, completed,
                   calls, late, ret, tmpDir, final, apc, exit, chunkVars,
                   ttsVars, genVars>>

\* the deferred calls of a task, last in first out:
\* "defer func() { <-semaphore }()", then "defer wg.Done()"
TaskExit(i) ==
    /\ tpc[i] = "release"
    /\ semaphore > 0
    /\ semaphore' = semaphore - 1
    /\ wg' = wg - 1
    /\ tpc' = [tpc EXCEPT ![i] = "done"]
    /\ UNCHANGED <<mpc, n, cap, spawned, errors, progress, closed, opc, completed,
                   audioFiles, disk, outcome, calls, failOrder, late, ret,
                   tmpDir, final, apc, exit, chunkVars,
                   ttsVars, genVars>>

\* the progress goroutine: one turn of "for range progress"
ObserverRecv ==
    /\ opc = "recv"
    /\ progress > 0
    /\ progress' = progress - 1
    /\ completed' = completed + 1
    /\ UNCHANGED <<mpc, n, cap, spawned, tpc, semaphore, wg, errors, closed, opc,
                   audioFiles, disk, outcome, calls, failOrder, late, ret,
                   tmpDir, final, apc, exit, chunkVars,
                   ttsVars, genVars>>

\* whether "for range progress" ends: the channel is closed and every value
\* sent to it has been received
LoopOverOnClose == "progress" \in closed
LoopOverWhenAllCounted == progress = 0 /\ completed = n
LoopOver == progress = 0 /\ "progress" \in closed

\* the progress goroutine: progress is closed and drained, the loop ends
ObserverEnd ==
    /\ opc = "recv"
    /\ LoopOver
    /\ opc' = "send"
    /\ UNCHANGED <<mpc, n, cap, spawned, tpc, semaphore, wg, errors, progress,
                   closed, completed, audioFiles, disk, outcome, calls,
                   failOrder, late, ret, tmpDir, final, apc, exit,
                   chunkVars,
                   ttsVars, genVars>>

\* whether wg.Wait() returns
WaitGroupDoneAfterTask == wg = 0 /\ spawned > 0
WaitGroupDoneOrFailed == wg = 0 \/ errors # <<>>
WaitGroupAlmostDone == wg <= 1
WaitGroupDone == wg = 0

\* wg.Wait(); close(errors); close(progress)
MainWait ==
    /\ mpc = "wgwait"
    /\ WaitGroupDone
    /\ closed' = closed \cup {"errors", "progress"}
    /\ mpc' = "await"
    /\ UNCHANGED <<n, cap, spawned, tpc, semaphore, wg, errors, progress, opc,
                   completed, audioFiles, disk, outcome, calls, failOrder,
                   late, ret, tmpDir, final, apc, exit, chunkVars,
                   ttsVars, genVars>>

\* <-progressDone, with the progress goroutine's "progressDone <- true"
MainAwait ==
    /\ mpc = "await"
    /\ opc = "send"
    /\ opc' = "done"
    /\ mpc' = "check"
    /\ UNCHANGED <<n, cap, spawned, tpc, semaphore, wg, errors, progress, closed,
                   completed, audioFiles, disk, outcome, calls, failOrder,
                   late, ret, tmpDir, final, apc, exit, chunkVars,
                   ttsVars, genVars>>

\* the error "for err := range errors" returns
LastError(q) == q[Len(q)]
FirstError(q) == Head(q)

\* "for err := range errors { return nil, err }", "return audioFiles, nil"
MainCheck ==
    /\ mpc = "check"
    /\ IF errors # <<>>
       THEN /\ ret' = [files |-> <<>>, err |-> FirstError(errors)]
            /\ errors' = Tail(errors)
       ELSE /\ ret' = [files |-> audioFiles, err |-> NoError]
            /\ UNCHANGED errors
    /\ mpc' = "returned"
    /\ UNCHANGED <<n, cap, spawned, tpc, semaphore, wg, progress, closed, opc,
                   completed, audioFiles, disk, outcome, calls, failOrder,
                   late, tmpDir, final, apc, exit, chunkVars,
                   ttsVars, genVars>>

\* "audioFiles, err := generateTTSAudioParallel(...); if err != nil"
ParallelFailedNever == FALSE
ParallelFailedOnEmpty == ret.err # NoError \/ ret.files = <<>>
ParallelFailed == ret.err # NoError

\* main after generateTTSAudioParallel: "if err != nil { ...; os.Exit(1) }"
MainAfterParallel ==
    /\ mpc = "returned"
    /\ IF ParallelFailed
       THEN OsExit
       ELSE /\ mpc' = "asm_create"
            /\ UNCHANGED exit
    /\ UNCHANGED <<n, cap, spawned, tpc, semaphore, wg, errors, progress, closed,
                   opc, completed, audioFiles, disk, outcome, calls,
                   failOrder, late, ret, tmpDir, final, apc, chunkVars,
                   ttsVars, genVars>>

\* concatenateMP3Files: outFile, err := os.Create(output); on an error
\* main prints it and calls os.Exit(1)
AsmCreate ==
    /\ mpc = "asm_create"
    /\ \/ /\ final' = [created |-> TRUE, data |-> <<>>]
          /\ apc' = 0
          /\ mpc' = "asm_copy"
          /\ UNCHANGED exit
       \/ /\ OsExit
          /\ UNCHANGED <<final, apc>>
    /\ UNCHANGED <<n, cap, spawned, tpc, semaphore, wg, errors, progress, closed,
                   opc, completed, audioFiles, disk, outcome, calls,
                   failOrder, late, ret, tmpDir, chunkVars,
                   ttsVars, genVars>>

\* io.Copy(outFile, inFile): the bytes of inFile go to the end of outFile
CopyToFront(out, bytes) == bytes \o out
Copy(out, bytes) == out \o bytes

\* concatenateMP3Files: one turn of "for _, f := range files": os.Open(f),
\* io.Copy(outFile, inFile); on an error main prints it and calls os.Exit(1)
AsmCopy ==
    /\ mpc = "asm_copy"
    /\ apc < n
    /\ LET f == ret.files[apc]
       IN  \/ /\ f \in DOMAIN disk
              /\ final' = [final EXCEPT !.data = Copy(@, disk[f])]
              /\ apc' = apc + 1
              /\ UNCHANGED <<mpc, exit>>
           \/ /\ OsExit
              /\ UNCHANGED <<final, apc>>
    /\ UNCHANGED <<n, cap, spawned, tpc, semaphore, wg, errors, progress, closed,
                   opc, completed, audioFiles, disk, outcome, calls,
                   failOrder, late, ret, tmpDir, chunkVars,
                   ttsVars, genVars>>

\* concatenateMP3Files: the loop is over, return nil
AsmReturn ==
    /\ mpc = "asm_copy"
    /\ apc = n
    /\ mpc' = "finish"
    /\ UNCHANGED <<n, cap, spawned, tpc, semaphore, wg, errors, progress, closed,
                   opc, completed, audioFiles, disk, outcome, calls,
                   failOrder, late, ret, tmpDir, final, apc, exit,
                   chunkVars,
                   ttsVars, genVars>>

\* main returns: the deferred os.RemoveAll(tmpDir) runs
MainReturn ==
    /\ mpc = "finish"
    /\ tmpDir' = "removed"
    /\ disk' = <<>>
    /\ mpc' = "exited"
    /\ exit' = "ok"
    /\ UNCHANGED <<n, cap, spawned, tpc, semaphore, wg, errors, progress, closed,
                   opc, completed, audioFiles, outcome, calls, failOrder,
                   late, ret, final, apc, chunkVars,
                   ttsVars, genVars>>

-----------------------------------------------------------------------------
(* Specifications *)

Init == ChunkIdle /\ InitPipe

Next ==
    \/ MainMkdirTemp
    \/ ParStart
    \/ MainSpawn
    \/ \E i \in Indices : TaskAcquire(i)
    \/ \E i \in Indices : TaskCall(i)
    \/ \E i \in Indices : TaskExit(i)
    \/ ObserverRecv
    \/ ObserverEnd
    \/ MainWait
    \/ MainAwait
    \/ MainCheck
    \/ MainAfterParallel
    \/ AsmCreate
    \/ AsmCopy
    \/ AsmReturn
    \/ MainReturn

\* the pipeline
Spec == Init /\ [][Next]_vars

\* chunks := splitTextIntoChunks(generatedText, 2800)
ChunkSize == 2800

\* main has loaded the text
InitMain ==
    /\ cpc = "input"
    /\ text \in Texts
    /\ maxSize = ChunkSize
    /\ sentences = <<>>
    /\ chunks = <<>>
    /\ mpc = "split"
    /\ n = 0
    /\ cap = SemaphoreCap
    /\ InitRun
    /\ TTSIdle
    /\ GenIdle

\* main splits the text: the chunks are the input of the rest of the run
MainSplit ==
    /\ mpc = "split"
    /\ chunks' = splitTextIntoChunks(text, maxSize)
    /\ cpc' = "chunks"
    /\ n' = Len(chunks')
    /\ tpc' = [i \in 0..(n' - 1) |-> "unborn"]
    /\ outcome' = [i \in 0..(n' - 1) |-> "none"]
    /\ calls' = [i \in 0..(n' - 1) |-> 0]
    /\ mpc' = "mkdir"
    /\ UNCHANGED <<text, maxSize, sentences, cap, spawned, semaphore, wg,
                   errors, progress, closed, opc, completed, audioFiles,
                   disk, failOrder, late, ret, tmpDir, final, apc, exit,
                   ttsVars, genVars>>

NextMain ==
    \/ MainSplit
    \/ Next

\* main from the loaded text on
SpecMain == InitMain /\ [][NextMain]_vars

\* generateTTSAudioParallel with a semaphore of every capacity
InitCaps == ChunkIdle /\ InitCap

SpecCaps == InitCaps /\ [][Next]_vars

\* the steps of main and of generateTTSAudioParallel itself
MainStep ==
    \/ MainMkdirTemp
    \/ ParStart
    \/ MainSpawn
    \/ MainWait
    \/ MainAwait
    \/ MainCheck
    \/ MainAfterParallel
    \/ AsmCreate
    \/ AsmCopy
    \/ AsmReturn
    \/ MainReturn

\* the steps of the task of chunk i
TaskStep(i) ==
    /\ i \in Indices
    /\ TaskAcquire(i) \/ TaskCall(i) \/ TaskExit(i)

\* the steps of the progress goroutine
ObserverStep == ObserverRecv \/ ObserverEnd

\* the Go scheduler runs every goroutine that can run, and every call of
\* generateTTSAudio returns
Fairness ==
    /\ WF_vars(MainStep)
    /\ WF_vars(ObserverStep)
    /\ \A i \in 0..(MaxChunks - 1) : WF_vars(TaskStep(i))

\* generateTTSAudioParallel with a semaphore of every capacity, under fair
\* scheduling
SpecLive == InitCaps /\ [][Next]_vars /\ Fairness

InitText == InitChunk /\ PipeIdle

NextChunk ==
    \/ CallSplitIntoSentences
    \/ CallSplitTextIntoChunks

\* the text functions on every input of the bounds
SpecChunk == InitText /\ [][NextChunk]_vars

-----------------------------------------------------------------------------
(* generateTTSAudio *)

(* One call of generateTTSAudio, made by the only task of a run of one     *)
(* chunk, step by step: the variable text is its textChunk. What the task  *)
(* does with the error is CallOk or CallError of the pipeline, and the     *)
(* rest of generateTTSAudioParallel follows.                               *)

\* len(strings.TrimSpace(textChunk)) == 0
IsEmptyChunk(textChunk) == Len(textChunk) = 0
IsBlankChunk(textChunk) == Len(TrimSpace(textChunk)) = 0

\* generateTTSAudio returns err
TTSReturn(err) ==
    /\ gerr' = err
    /\ gpc' = "returned"

\* the task of chunk 0 is in its call, nothing else has happened
InitTTS ==
    /\ cpc = "off" /\ text \in Texts /\ maxSize = 1
    /\ sentences = <<>> /\ chunks = <<>>
    /\ mpc = "wgwait" /\ n = 1 /\ cap = SemaphoreCap /\ spawned = 1
    /\ tpc = [i \in 0..0 |-> "call"]
    /\ semaphore = 1 /\ wg = 1 /\ errors = <<>> /\ progress = 0
    /\ closed = {} /\ opc = "recv" /\ completed = 0
    /\ audioFiles = [i \in 0..0 |-> 0]
    /\ disk = <<>>
    /\ outcome = [i \in 0..0 |-> "none"]
    /\ calls = [i \in 0..0 |-> 1]
    /\ failOrder = <<>> /\ late = FALSE
    /\ ret = [files |-> <<>>, err |-> NoError]
    /\ tmpDir = "exists"
    /\ final = [created |-> FALSE, data |-> <<>>]
    /\ apc = 0 /\ exit = "running"
    /\ gpc = "entry" /\ requests = 0 /\ outFile = "absent" /\ gerr = "nil"
    /\ GenIdle

\* if len(strings.TrimSpace(textChunk)) == 0 { return &PodcastError{...} }
TTSCheckBlank ==
    /\ gpc = "entry"
    /\ IF IsBlankChunk(text)
       THEN TTSReturn("Empty text chunk")
       ELSE gpc' = "key" /\ UNCHANGED gerr
    /\ UNCHANGED <<requests, outFile, chunkVars, pipeVars, genVars>>

\* apiKey := os.Getenv("OPENAI_API_KEY"), json.Marshal, http.NewRequest
TTSGetKey ==
    /\ gpc = "key"
    /\ \/ gpc' = "request" /\ UNCHANGED gerr
       \/ TTSReturn("API key not found")
       \/ TTSReturn("request not built")
    /\ UNCHANGED <<requests, outFile, chunkVars, pipeVars, genVars>>

\* resp, err := client.Do(req), and the test of resp.StatusCode
TTSRequest ==
    /\ gpc = "request"
    /\ requests' = requests + 1
    /\ \/ gpc' = "create" /\ UNCHANGED gerr
       \/ TTSReturn("request failed")
       \/ TTSReturn("TTS request failed (status)")
    /\ UNCHANGED <<outFile, chunkVars, pipeVars, genVars>>

\* outFile, err := os.Create(outputFile)
TTSCreate ==
    /\ gpc = "create"
    /\ \/ outFile' = "created" /\ gpc' = "copy" /\ UNCHANGED gerr
       \/ TTSReturn("file not created") /\ UNCHANGED outFile
    /\ UNCHANGED <<requests, chunkVars, pipeVars, genVars>>

\* io.Copy(outFile, resp.Body), outFile.Stat() and the test of the size
TTSCopy ==
    /\ gpc = "copy"
    /\ \/ outFile' = "written" /\ TTSReturn("nil")
       \/ TTSReturn("copy failed") /\ UNCHANGED outFile
       \/ TTSReturn("Generated audio file is empty") /\ UNCHANGED outFile
    /\ UNCHANGED <<requests, chunkVars, pipeVars, genVars>>

\* the task after its call: "if err != nil { errors <- ...; return }",
\* else "audioFiles[index] = chunkFile; progress <- 1"
TaskHandle ==
    /\ gpc = "returned"
    /\ gpc' = "handled"
    /\ IF gerr = "nil" THEN CallOk(0) ELSE CallError(0)
    /\ tpc' = [tpc EXCEPT ![0] = "release"]
    /\ UNCHANGED <<mpc, n, cap, spawned, semaphore, wg, closed, opc,
                   completed, calls, late, ret, tmpDir, final, apc, exit,
                   chunkVars, requests, outFile, gerr,
                   genVars>>

NextTTS ==
    \/ TTSCheckBlank
    \/ TTSGetKey
    \/ TTSRequest
    \/ TTSCreate
    \/ TTSCopy
    \/ TaskHandle
    \/ \E i \in Indices : TaskExit(i)
    \/ ObserverRecv
    \/ ObserverEnd
    \/ MainWait
    \/ MainAwait
    \/ MainCheck

\* one call of generateTTSAudio on every text of the bounds, in a run of
\* generateTTSAudioParallel with one chunk
SpecTTS == InitTTS /\ [][NextTTS]_vars

-----------------------------------------------------------------------------
(* The sequential main *)

(* The earlier main synthesises the chunks in a loop, one call after the   *)
(* other, and hands the files to the same concatenateMP3Files. spawned is  *)
(* the loop index i, audioFiles the slice the loop appends to.             *)

\* main has its chunks and tmpDir and is about to enter the loop
InitSeq ==
    /\ ChunkIdle
    /\ mpc = "seq_loop"
    /\ n \in 0..(SemaphoreCap + MaxWaiting)
    /\ cap = SemaphoreCap
    /\ spawned = 0
    /\ tpc = [i \in 0..(n - 1) |-> "unborn"]
    /\ semaphore = 0 /\ wg = 0 /\ errors = <<>> /\ progress = 0
    /\ closed = {} /\ opc = "unborn" /\ completed = 0
    /\ audioFiles = <<>>
    /\ disk = <<>>
    /\ outcome = [i \in 0..(n - 1) |-> "none"]
    /\ calls = [i \in 0..(n - 1) |-> 0]
    /\ failOrder = <<>> /\ late = FALSE
    /\ ret = [files |-> <<>>, err |-> NoError]
    /\ tmpDir = "exists"
    /\ final = [created |-> FALSE, data |-> <<>>]
    /\ apc = 0 /\ exit = "running"

\* one turn of the loop begins: go showSpinner(done), then
\* generateTTSAudio(chunk, promptData.Voice, chunkFile) is called
SeqEnter ==
    /\ mpc = "seq_loop"
    /\ spawned < n
    /\ tpc' = [tpc EXCEPT ![spawned] = "call"]
    /\ calls' = [calls EXCEPT ![spawned] = @ + 1]
    /\ mpc' = "seq_call"
    /\ UNCHANGED <<n, cap, spawned, semaphore, wg, errors, progress, closed,
                   opc, completed, audioFiles, disk, outcome, failOrder,
                   late, ret, tmpDir, final, apc, exit, chunkVars, ttsVars, genVars>>

\* generateTTSAudio returns, nil with the file written or an error
SeqCallReturns ==
    /\ mpc = "seq_call"
    /\ \/ /\ outcome' = [outcome EXCEPT ![spawned] = "ok"]
          /\ disk' = WriteFile(disk, ChunkFile(spawned), Audio(spawned))
          /\ UNCHANGED failOrder
       \/ /\ outcome' = [outcome EXCEPT ![spawned] = "error"]
          /\ failOrder' = Append(failOrder, spawned)
          /\ UNCHANGED disk
    /\ tpc' = [tpc EXCEPT ![spawned] = "done"]
    /\ mpc' = "seq_test"
    /\ UNCHANGED <<n, cap, spawned, semaphore, wg, errors, progress, closed,
                   opc, completed, audioFiles, calls, late, ret, tmpDir,
                   final, apc, exit, chunkVars, ttsVars, genVars>>

\* what the loop does with an error: it prints it and calls os.Exit(1)
SeqOnErrorContinue ==
    /\ spawned' = spawned + 1
    /\ mpc' = "seq_loop"
    /\ UNCHANGED exit
SeqOnError ==
    /\ OsExit
    /\ UNCHANGED spawned

\* done <- true; if err != nil { ...; os.Exit(1) };
\* audioFiles = append(audioFiles, chunkFile); time.Sleep(time.Second)
SeqAfterCall ==
    /\ mpc = "seq_test"
    /\ IF outcome[spawned] = "error"
       THEN /\ SeqOnError
            /\ UNCHANGED audioFiles
       ELSE /\ audioFiles' = [j \in 0..spawned |->
                                IF j = spawned THEN ChunkFile(spawned)
                                ELSE audioFiles[j]]
            /\ spawned' = spawned + 1
            /\ mpc' = "seq_loop"
            /\ UNCHANGED exit
    /\ UNCHANGED <<n, cap, tpc, semaphore, wg, errors, progress, closed,
                   opc, completed, disk, outcome, calls, failOrder, late,
                   ret, tmpDir, final, apc, chunkVars, ttsVars, genVars>>

\* the loop is over: concatenateMP3Files(audioFiles, finalOutput) is called
SeqDone ==
    /\ mpc = "seq_loop"
    /\ spawned = n
    /\ ret' = [files |-> audioFiles, err |-> NoError]
    /\ mpc' = "asm_create"
    /\ UNCHANGED <<n, cap, spawned, tpc, semaphore, wg, errors, progress,
                   closed, opc, completed, audioFiles, disk, outcome, calls,
                   failOrder, late, tmpDir, final, apc, exit, chunkVars,
                   ttsVars, genVars>>

NextSeq ==
    \/ SeqEnter
    \/ SeqCallReturns
    \/ SeqAfterCall
    \/ SeqDone
    \/ AsmCreate
    \/ AsmCopy
    \/ AsmReturn
    \/ MainReturn

\* the sequential main from its loop on
SpecSeq == InitSeq /\ [][NextSeq]_vars

-----------------------------------------------------------------------------
(* Properties *)

\* generateTTSAudioParallel has just returned to main
Returned == mpc = "returned"

\* the tasks that hold a slot of the semaphore
HoldingSlot == {i \in Indices : tpc[i] \in {"call", "release"}}

\* a string with no blank in it
IsWord(s) == s # <<>> /\ \A j \in 1..Len(s) : ~IsSpace(s[j])

\* C1: at every moment the number of tasks inside generateTTSAudio is at
\* most the capacity of the semaphore; the tasks inside the call hold a slot,
\* the slots held are the elements of the channel, and every task without a
\* slot is not yet started, waiting for a slot, or finished.
C1_ConcurrencyCap ==
    /\ Cardinality(InCall) <= SemaphoreCap
    /\ InCall \subseteq HoldingSlot
    /\ semaphore = Cardinality(HoldingSlot)
    /\ semaphore <= SemaphoreCap
    /\ \A i \in Indices \ HoldingSlot : tpc[i] \in {"unborn", "wait", "done"}

\* C1's case: the semaphore is full of tasks inside the call and another
\* task waits for a slot
C1_Witness ==
    /\ Cardinality(InCall) = SemaphoreCap
    /\ \E i \in Indices : tpc[i] = "wait"

\* C2: when generateTTSAudioParallel returns successfully, element i of the
\* result names the file that holds the audio the call for chunk i produced.
C2_ResultOrder ==
    (Returned /\ ret.err = NoError) =>
        /\ DOMAIN ret.files = Indices
        /\ \A i \in Indices :
            /\ ret.files[i] \in DOMAIN disk
            /\ disk[ret.files[i]] = Audio(i)

\* C2's case: a successful return of a run with more chunks than slots, so
\* that the tasks were admitted and completed at different times
C2_Witness ==
    /\ Returned
    /\ ret.err = NoError
    /\ n > SemaphoreCap

\* C3: every chunk of splitTextIntoChunks is at most maxSize long, except a
\* chunk that is one word (no blank in it) longer than maxSize.
C3_SizeBound ==
    cpc = "chunks" =>
        \A k \in 1..Len(chunks) :
            \/ Len(chunks[k]) <= maxSize
            \/ IsWord(chunks[k])

\* C3's case: the result holds a word longer than maxSize as a chunk, after
\* a chunk that fills maxSize
C3_Witness ==
    /\ cpc = "chunks"
    /\ \E k \in 2..Len(chunks) :
        /\ Len(chunks[k]) > maxSize
        /\ Len(chunks[k - 1]) = maxSize

\* C4 (as claimed): no chunk of splitTextIntoChunks is the empty string.
C4_NoEmptyChunk ==
    cpc = "chunks" => \A k \in 1..Len(chunks) : chunks[k] # <<>>

\* C5 (as claimed): the chunks of splitTextIntoChunks, concatenated in order
\* and with the blanks deleted, are the non-blank characters of the text in
\* the same order.
C5_Coverage ==
    cpc = "chunks" => StripSpace(Flatten(chunks)) = StripSpace(text)

\* C6: when generateTTSAudioParallel returns and exactly one call failed, it
\* returns that failure and generateTTSAudio has been called exactly once
\* for every chunk.
C6_FailureContainment ==
    (Returned /\ Cardinality(Failed) = 1) =>
        /\ ret.err # NoError
        /\ \A i \in Indices : calls[i] = 1
        /\ \A i \in Indices \ Failed : outcome[i] = "ok"

\* C6's case: a return with exactly one failed call in a run where a task
\* was admitted to a slot after the failure was recorded
C6_Witness ==
    /\ Returned
    /\ Cardinality(Failed) = 1
    /\ late
    /\ n > 1

\* C7: when calls have failed, generateTTSAudioParallel returns an error and
\* no files, and the error is the one recorded first.
C7_FirstFailure ==
    (Returned /\ Failed # {}) =>
        /\ ret.err = [chunk |-> Head(failOrder) + 1]
        /\ ret.files = <<>>

\* C7's case: two calls failed and the one recorded first is not the one of
\* the smaller index
C7_Witness ==
    /\ Returned
    /\ Len(failOrder) = 2
    /\ failOrder[1] > failOrder[2]
    /\ ret.err = [chunk |-> failOrder[1] + 1]

\* C8 (as claimed): the error generateTTSAudioParallel returns is tagged
\* with the index of the failed chunk, the index of its slot in audioFiles.
C8_TagIsSlotIndex ==
    (Returned /\ Failed # {}) => ret.err.chunk = Head(failOrder)

\* C8 (amended): the error is tagged with the index of the failed chunk plus
\* one, the number in the name of the chunk's file.
C8_TagIsIndexPlusOne ==
    (Returned /\ Failed # {}) =>
        /\ ret.err.chunk = Head(failOrder) + 1
        /\ ret.err.chunk = ChunkFile(Head(failOrder))

\* C8's case: the call for chunk index 4 is the one that failed
C8_Witness ==
    /\ Returned
    /\ failOrder = <<4>>
    /\ ret.err.chunk = 5

\* C9 (as claimed): when the run has ended, the temporary directory it
\* created has been removed.
C9_TmpDirRemoved ==
    exit # "running" => tmpDir # "exists"

\* the positions of main inside and after concatenateMP3Files
AsmStates == {"asm_create", "asm_copy", "finish"}

\* C10: concatenateMP3Files runs, and the final file is created, only after
\* generateTTSAudioParallel has returned with every call successful; when a
\* call has failed the run creates no final file.
C10_AssemblerAfterSuccess ==
    /\ (mpc \in AsmStates \/ final.created) =>
            /\ ret.err = NoError
            /\ opc = "done"
            /\ \A i \in Indices : outcome[i] = "ok" /\ tpc[i] = "done"
    /\ Failed # {} => (~final.created /\ mpc \notin AsmStates)

\* C10's case: the run has ended on a failed call, other calls had
\* succeeded, and there is no final file
C10_Witness ==
    /\ exit = "fail"
    /\ Failed # {}
    /\ \E i \in Indices : outcome[i] = "ok"
    /\ ~final.created

\* C11: whenever a run ends on a fatal condition, an I/O failure of
\* concatenateMP3Files after some files were copied included, the run has
\* left no final file: podcast_final.mp3 was not created.
C11_NoFinalOnFatal == exit = "fail" => ~final.created

\* C12: when generateTTSAudioParallel returns without an error for n chunks,
\* the slice it returns has exactly n entries, every entry holds the file of
\* a finished call (none is left at its zero value, and the file is on
\* disk), and generateTTSAudio was called exactly once for every chunk.
C12_AllSlotsFilled ==
    (Returned /\ ret.err = NoError) =>
        /\ DOMAIN ret.files = Indices
        /\ \A i \in Indices :
              /\ ret.files[i] # 0
              /\ ret.files[i] \in DOMAIN disk
              /\ calls[i] = 1
              /\ tpc[i] = "done"

\* a run of more chunks than the semaphore admits has returned without error
C12_Witness ==
    /\ Returned
    /\ ret.err = NoError
    /\ n > SemaphoreCap
    /\ \A i \in Indices : calls[i] = 1 /\ ret.files[i] # 0

\* what generateTTSAudioParallel has returned: the file names in the order
\* of the slice, and the audio each of them holds
Output ==
    [files |-> ret.files,
     audio |-> [i \in DOMAIN ret.files |->
                   IF ret.files[i] \in DOMAIN disk
                   THEN disk[ret.files[i]] ELSE <<>>]]

\* the output for count chunks when no call fails
OutputOf(count) ==
    [files |-> [i \in 0..(count - 1) |-> ChunkFile(i)],
     audio |-> [i \in 0..(count - 1) |-> Audio(i)]]

\* C13: for a given sequence of chunks and calls that never fail, what
\* generateTTSAudioParallel returns is the same for every capacity of the
\* semaphore from 1 up and for every interleaving of the tasks: it is a
\* function of the chunks alone.
C13_OutputIndependent ==
    (Returned /\ Failed = {}) =>
        /\ ret.err = NoError
        /\ Output = OutputOf(n)

\* C13's case: a return without failure of a run in which tasks ran two at
\* a time and another had to wait for a slot
C13_Witness ==
    /\ Returned
    /\ Failed = {}
    /\ cap = 2
    /\ n > cap

\* the sequential loop "for i, chunk := range chunks" of the earlier main:
\* the chunks are synthesised in index order and the run stops at the first
\* call that fails, reporting "chunk <i+1>"; failing is the set of chunks
\* whose call fails
SequentialResult(count, failing) ==
    IF failing = {}
    THEN [files |-> [i \in 0..(count - 1) |-> ChunkFile(i)], err |-> NoError]
    ELSE [files |-> <<>>,
          err |-> [chunk |->
                     1 + CHOOSE i \in failing : \A j \in failing : i <= j]]

Succeeded == {i \in Indices : outcome[i] = "ok"}

\* C15: the progress goroutine receives one signal for every task that has
\* succeeded and none for a task that has failed; the count it prints goes
\* up by exactly one with every signal it receives, never exceeds the number
\* of chunks, and is the number of chunks when generateTTSAudioParallel
\* returns from a run without failure.
C15_ProgressCount ==
    /\ [](/\ progress + completed = Cardinality(Succeeded)
          /\ completed <= n
          /\ Returned => completed = Cardinality(Succeeded)
          /\ (Returned /\ Failed = {}) => completed = n)
    /\ [][/\ completed' # completed =>
                /\ completed' = completed + 1
                /\ progress' = progress - 1
          /\ progress' < progress => completed' = completed + 1]_vars

\* C15's case: a run of several chunks has returned with one failed call;
\* the progress goroutine has counted all the others
C15_Witness ==
    /\ Returned
    /\ n > 2
    /\ Cardinality(Failed) = 1
    /\ completed = n - 1
    /\ progress = 0

\* C16 as stated: generateTTSAudioParallel needs no acknowledgement from the
\* progress goroutine: a task in its call can always go on, and main, once
\* it has closed the channels, can go on to return, whatever the progress
\* goroutine has received or printed so far.
C16_NoWaitForObserver ==
    /\ \A i \in Indices : tpc[i] = "call" => progress < n
    /\ mpc = "await" => ENABLED MainAwait

\* C16 amended: no task waits for the progress goroutine, since progress
\* has room for the signal of every task; the return of
\* generateTTSAudioParallel does wait for it: main receives from
\* progressDone, which the progress goroutine sends after it has received
\* every signal.
C16_ReturnAwaitsObserver ==
    /\ \A i \in Indices : tpc[i] = "call" => progress < n
    /\ (mpc = "await" /\ opc = "recv") => ~ENABLED MainAwait
    /\ mpc \in {"check", "returned"} =>
          /\ opc = "done"
          /\ progress = 0
          /\ completed = Cardinality(Succeeded)

\* C16's case: every task of a run of several chunks has sent its signal
\* while the progress goroutine had received none, and main is waiting for
\* progressDone
C16_Witness ==
    /\ mpc = "await"
    /\ opc = "recv"
    /\ n > 1
    /\ progress = n
    /\ completed = 0

\* a string with no blank at either end
IsTrimmed(s) == s = <<>> \/ (~IsSpace(s[1]) /\ ~IsSpace(s[Len(s)]))

\* C17 as stated: splitIntoSentences returns only segments that are not
\* empty and have no blank at either end, and for the empty text it returns
\* the empty sequence.
C17_NonEmptyTrimmed ==
    cpc = "sentences" =>
        /\ \A k \in 1..Len(sentences) :
              sentences[k] # <<>> /\ IsTrimmed(sentences[k])
        /\ text = <<>> => sentences = <<>>

\* C17 amended: splitIntoSentences returns segments with no blank at either
\* end, some of which may be empty: it returns at least one segment, the
\* segment after a final '.', '?' or '!' is empty, and for the empty text it
\* returns one empty segment.
C17_TrimmedSegments ==
    cpc = "sentences" =>
        /\ Len(sentences) >= 1
        /\ \A k \in 1..Len(sentences) : IsTrimmed(sentences[k])
        /\ (text # <<>> /\ text[Len(text)] \in {".", "?", "!"}) =>
              sentences[Len(sentences)] = <<>>
        /\ text = <<>> => sentences = << <<>> >>

\* C17's case: a text with blanks around it and one terminator gives a
\* trimmed sentence and an empty segment
C17_Witness ==
    /\ cpc = "sentences"
    /\ text # <<>>
    /\ IsSpace(text[1])
    /\ IsSpace(text[Len(text)])
    /\ Len(sentences) = 2
    /\ Len(sentences[1]) = 2
    /\ sentences[2] = <<>>

\* a step of generateTTSAudioParallel itself or of its progress goroutine
SchedulerStep ==
    \/ ParStart
    \/ MainSpawn
    \/ ObserverRecv
    \/ ObserverEnd
    \/ MainWait
    \/ MainAwait
    \/ MainCheck

\* C18: for the empty text main has zero chunks; generateTTSAudioParallel on
\* zero chunks calls generateTTSAudio for nothing, sends and counts no
\* progress, is never blocked, and returns an empty slice and no error.
C18_EmptyRun ==
    /\ (text = <<>> /\ mpc # "split") => (chunks = <<>> /\ n = 0)
    /\ (n = 0 /\ mpc # "split") =>
          /\ DOMAIN calls = {}
          /\ InCall = {}
          /\ semaphore = 0
          /\ progress = 0
          /\ completed = 0
          /\ mpc \in {"start", "wgwait", "await", "check"} =>
                ENABLED SchedulerStep
          /\ Returned => ret = [files |-> <<>>, err |-> NoError]

\* C18's case: generateTTSAudioParallel has returned in the run of main on
\* the empty text
C18_Witness ==
    /\ text = <<>>
    /\ cpc = "chunks"
    /\ Returned
    /\ n = 0
    /\ ret = [files |-> <<>>, err |-> NoError]

\* strings.Join(cs, " ")
RECURSIVE JoinChunks(_)
JoinChunks(cs) ==
    IF cs = <<>> THEN <<>>
    ELSE IF Len(cs) = 1 THEN cs[1]
    ELSE cs[1] \o <<" ">> \o JoinChunks(Tail(cs))

\* the number of sentences of a text: the segments of splitIntoSentences
\* that are not empty
SentenceCount(t) ==
    Cardinality({k \in 1..Len(splitIntoSentences(t)) :
                    splitIntoSentences(t)[k] # <<>>})

\* the number of '.', '?' and '!' in a string
Terminators(s) ==
    Cardinality({j \in 1..Len(s) : s[j] \in {".", "?", "!"}})

\* C19: splitIntoSentences of the chunks of splitTextIntoChunks joined with
\* a blank gives as many sentences as splitIntoSentences of the text, and
\* the chunks hold as many '.', '?' and '!' as the text.
C19_SameSentenceCount ==
    cpc = "chunks" =>
        /\ SentenceCount(JoinChunks(chunks)) = SentenceCount(text)
        /\ Terminators(JoinChunks(chunks)) = Terminators(text)

\* the bytes of the first k files of the list given to concatenateMP3Files,
\* in the order of the list
RECURSIVE Concatenation(_)
Concatenation(k) ==
    IF k = 0 THEN <<>>
    ELSE Concatenation(k - 1) \o disk[ret.files[k - 1]]

\* C20: concatenateMP3Files writes to the output the bytes of the files it
\* is given, in the order of the list, and nothing else: after k turns of its
\* loop the output holds the first k files, and when it returns nil the
\* output is file 0 followed by file 1 ... followed by file n-1.
C20_ConcatInOrder ==
    /\ mpc = "asm_copy" =>
          /\ final.created
          /\ final.data = Concatenation(apc)
    /\ mpc = "finish" =>
          /\ final.created
          /\ final.data = Concatenation(n)
          /\ final.data = [k \in 1..n |-> Audio(k - 1)[1]]

\* C20's case: concatenateMP3Files has returned nil for a list of more
\* files than the semaphore admits tasks
C20_Witness ==
    /\ mpc = "finish"
    /\ n > SemaphoreCap
    /\ Len(final.data) = n
    /\ final.data[1] = Audio(0)[1]
    /\ final.data[n] = Audio(n - 1)[1]

\* wg.Wait() has returned in generateTTSAudioParallel
AfterWait == mpc \in {"await", "check", "returned"}

\* C21: from the return of wg.Wait() on, and so when generateTTSAudioParallel
\* returns with or without an error, every task has been started and has
\* finished its call and its deferred calls, no task is in the call, and the
\* semaphore is empty; a recorded failure stops no other task: every task,
\* whether it was in the call or waiting when the failure was recorded, has
\* made its call and has its own result, the file of a task that succeeded
\* is written and named in its slot, and every failure is recorded.
C21_AllDrained ==
    /\ AfterWait =>
          /\ spawned = n
          /\ \A i \in Indices :
                tpc[i] = "done" /\ calls[i] = 1 /\ outcome[i] # "none"
          /\ InCall = {}
          /\ HoldingSlot = {}
          /\ semaphore = 0
          /\ wg = 0
          /\ \A i \in Succeeded :
                audioFiles[i] = ChunkFile(i) /\ ChunkFile(i) \in DOMAIN disk
          /\ Len(errors) + (IF mpc = "returned" /\ Failed # {} THEN 1 ELSE 0)
                = Cardinality(Failed)

\* C21's case: a run of more chunks than slots has returned an error, and a
\* task was admitted to a slot after the error was recorded
C21_Witness ==
    /\ Returned
    /\ ret.err # NoError
    /\ n > SemaphoreCap
    /\ late
    /\ semaphore = 0
    /\ \A i \in Indices : tpc[i] = "done"

\* the slots of audioFiles that hold a file name
Written == {i \in DOMAIN audioFiles : audioFiles[i] # 0}

\* C22: a slot of audioFiles is written at most once, by the task of its own
\* index and only when the call of that task succeeded; no two tasks write
\* the same slot; the slice is handed to the caller only after every task
\* has finished.
C22_WriteOnce ==
    /\ [](/\ Written = (IF audioFiles = <<>> THEN {} ELSE Succeeded)
          /\ \A i \in Written : audioFiles[i] = ChunkFile(i)
          /\ \A i \in Indices : calls[i] <= 1
          /\ ret.files # <<>> =>
                /\ \A i \in Indices : tpc[i] = "done"
                /\ ret.files = audioFiles)
    /\ [][\A i \in DOMAIN audioFiles :
             audioFiles'[i] # audioFiles[i] =>
                /\ audioFiles[i] = 0
                /\ tpc[i] = "call"
                /\ tpc'[i] = "release"
                /\ outcome'[i] = "ok"
                /\ \A j \in DOMAIN audioFiles \ {i} :
                      audioFiles'[j] = audioFiles[j]]_vars

\* C22's case: two tasks are in the call at the same time, one slot is
\* written and a call has failed, its slot unwritten
C22_Witness ==
    /\ Cardinality(InCall) >= 2
    /\ Written # {}
    /\ Failed # {}
    /\ \A i \in Failed : audioFiles[i] = 0

\* C23: a task that holds a slot never waits for another task: when it is in
\* the call, errors and progress both have room for what it will send (each
\* has as many places as there are chunks), and when it is before its
\* deferred calls the semaphore holds the element it will receive; a task
\* is suspended only before its send on semaphore or inside generateTTSAudio.
C23_AdmittedNeverBlocks ==
    /\ \A i \in Indices :
          /\ tpc[i] = "call" =>
                /\ Len(errors) < ChannelCap
                /\ progress < ChannelCap
          /\ tpc[i] = "release" => semaphore > 0
          /\ tpc[i] \in {"unborn", "wait", "call", "release", "done"}
    /\ Len(errors) + progress + Cardinality(InCall) <= ChannelCap
    /\ Len(errors) <= Cardinality(Failed)
    /\ progress <= Cardinality(Succeeded)

\* C23's case: a task is in the call while the channels hold what all the
\* other tasks of the run have sent, a failure among it, none of it received
C23_Witness ==
    /\ n > 2
    /\ Cardinality(InCall) = 1
    /\ Len(errors) >= 1
    /\ Len(errors) + progress = n - 1
    /\ completed = 0

\* C24: under fair scheduling, with every call of generateTTSAudio
\* returning, a call of generateTTSAudioParallel returns, for fewer chunks
\* than slots, as many, and more, and whichever calls fail.
C24_EventuallyReturns == (mpc = "start") ~> Returned

\* C24's case: a run with fewer slots than chunks and a failed call has
\* returned, after a task had been admitted behind the failure
C24_Witness ==
    /\ Returned
    /\ cap < n
    /\ Failed # {}
    /\ late
    /\ Cardinality(Succeeded) >= 1

\* the chunks splitTextIntoChunks makes of the sentences ss
ChunksOfSentences(ss, max) ==
    LET st == ChunkLoop(ss, max, [chunks |-> <<>>, current |-> <<>>])
    IN  IF Len(st.current) > 0 THEN Append(st.chunks, st.current) ELSE st.chunks

\* ps is the greedy packing of words into strings of at most max characters:
\* every string is words joined by single blanks, the words are those given
\* in their order, a string of several words is at most max long, and the
\* first word of the next string would not have fitted
IsGreedyPacking(ps, words, max) ==
    /\ \A j \in 1..Len(ps) :
          /\ ps[j] # <<>>
          /\ ps[j] = JoinChunks(Fields(ps[j]))
          /\ Len(Fields(ps[j])) >= 2 => Len(ps[j]) <= max
    /\ Fields(JoinChunks(ps)) = words
    /\ \A j \in 1..(Len(ps) - 1) :
          Len(ps[j]) + 1 + Len(Fields(ps[j + 1])[1]) > max

\* "Hello world. Hi."
HelloText ==
    <<"H", "e", "l", "l", "o", " ", "w", "o", "r", "l", "d", ".", " ",
      "H", "i", ".">>

\* "Hello", "world.", "Hi."
HelloChunks ==
    << <<"H", "e", "l", "l", "o">>, <<"w", "o", "r", "l", "d", ".">>,
       <<"H", "i", ".">> >>

\* C25: for a sentence longer than maxSize, splitTextIntoChunks ends the
\* chunk in progress if it is not empty, packs the words of the sentence
\* greedily into chunks, and merges none of these chunks, the last one
\* included, with the sentence before or after: the chunks of the text are
\* the chunks of the sentences before, the greedy packing of the sentence,
\* and the chunks of the sentences after. With maxSize 10 the chunks of
\* "Hello world. Hi." are "Hello", "world.", "Hi.".
C25_LongSentencePacked ==
    /\ splitTextIntoChunks(HelloText, 10) = HelloChunks
    /\ cpc = "chunks" =>
          LET ss == splitIntoSentences(text)
          IN  \A k \in 1..Len(ss) :
                 Len(ss[k]) > maxSize =>
                    LET before == ChunksOfSentences(SubSeq(ss, 1, k - 1),
                                                    maxSize)
                        after == ChunksOfSentences(SubSeq(ss, k + 1, Len(ss)),
                                                   maxSize)
                        last == Len(chunks) - Len(after)
                    IN  /\ Len(chunks) > Len(before) + Len(after)
                        /\ SubSeq(chunks, 1, Len(before)) = before
                        /\ SubSeq(chunks, last + 1, Len(chunks)) = after
                        /\ IsGreedyPacking(
                              SubSeq(chunks, Len(before) + 1, last),
                              Fields(ss[k]), maxSize)

\* C25's case: a sentence of two words that is longer than maxSize comes
\* after a sentence that fits: the chunk in progress is ended and the two
\* words are a chunk each
C25_Witness ==
    /\ cpc = "chunks"
    /\ Len(chunks) = 3
    /\ chunks[1] = <<".">>
    /\ chunks[2] = <<"a">>
    /\ chunks[3] = <<"a">>
    /\ Len(splitIntoSentences(text)) = 2
    /\ Len(Fields(splitIntoSentences(text)[2])) = 2
    /\ Len(splitIntoSentences(text)[2]) > maxSize

\* the rule of C26: the chunk in progress is ended before a sentence exactly
\* when its length, plus one for the blank if it is not empty, plus the
\* length of the sentence is more than max
RECURSIVE FlushOnOverflow(_, _, _)
FlushOnOverflow(ss, max, st) ==
    IF ss = <<>> THEN st
    ELSE LET sentence == Head(ss)
             blank == IF Len(st.current) > 0 THEN 1 ELSE 0
         IN  IF sentence = <<>> THEN FlushOnOverflow(Tail(ss), max, st)
             ELSE IF Len(st.current) + blank + Len(sentence) > max
             THEN FlushOnOverflow(Tail(ss), max,
                      [chunks |-> Append(st.chunks, st.current),
                       current |-> sentence])
             ELSE FlushOnOverflow(Tail(ss), max,
                      [st EXCEPT !.current =
                          IF blank = 1 THEN @ \o <<" ">> \o sentence
                          ELSE sentence])

\* every sentence of the text fits in maxSize
AllFit ==
    \A k \in 1..Len(splitIntoSentences(text)) :
        Len(splitIntoSentences(text)[k]) <= maxSize

\* C26: when every sentence fits in maxSize, splitTextIntoChunks ends the
\* chunk in progress before a sentence exactly when the length of the chunk,
\* plus one blank if the chunk is not empty, plus the length of the sentence
\* is more than maxSize; so of two consecutive chunks the first, a blank and
\* the first sentence of the second are together longer than maxSize.
C26_FlushExactlyOnOverflow ==
    (cpc = "chunks" /\ AllFit) =>
        LET st == FlushOnOverflow(splitIntoSentences(text), maxSize,
                                  [chunks |-> <<>>, current |-> <<>>])
            expected == IF Len(st.current) > 0
                        THEN Append(st.chunks, st.current) ELSE st.chunks
        IN  /\ chunks = expected
            /\ \A j \in 1..(Len(chunks) - 1) :
                  Len(chunks[j]) + 1
                    + Len(splitIntoSentences(chunks[j + 1])[1]) > maxSize

\* the words of the strings of a sequence, in order
RECURSIVE WordsOf(_)
WordsOf(ss) ==
    IF ss = <<>> THEN <<>> ELSE Fields(Head(ss)) \o WordsOf(Tail(ss))

\* C27 as stated: a word of the text (a string without blanks between two
\* blanks or ends of the text) that is longer than maxSize is, unchanged and
\* whole, a chunk of splitTextIntoChunks.
C27_TextWordAlone ==
    cpc = "chunks" =>
        \A w \in 1..Len(Fields(text)) :
            Len(Fields(text)[w]) > maxSize =>
                \E j \in 1..Len(chunks) : chunks[j] = Fields(text)[w]

\* C27 amended: the words are those of the sentences, after the text is cut
\* behind every '.', '?' and '!': a word of a sentence that is longer than
\* maxSize is a chunk by itself. The words of the chunks are the words of
\* the sentences, each whole and in order, and a chunk that holds a word
\* longer than maxSize holds nothing else.
C27_LongWordAlone ==
    cpc = "chunks" =>
        /\ WordsOf(chunks) = WordsOf(splitIntoSentences(text))
        /\ \A j \in 1..Len(chunks) :
              \A w \in 1..Len(Fields(chunks[j])) :
                  Len(Fields(chunks[j])[w]) > maxSize =>
                      chunks[j] = Fields(chunks[j])[w]

\* C27's case: a sentence of two words, the second longer than maxSize, the
\* first not: the long word is a chunk of its own after the chunk of the
\* first
C27_Witness ==
    /\ cpc = "chunks"
    /\ Len(splitIntoSentences(text)) = 1
    /\ Len(Fields(text)) = 2
    /\ Len(Fields(text)[1]) <= maxSize
    /\ Len(Fields(text)[2]) > maxSize
    /\ chunks = Fields(text)

\* '.', '?' or '!'
IsTerminator(c) == c \in {".", "?", "!"}

\* C28: splitIntoSentences cuts the text behind every '.', '?' and '!': every
\* segment but the last ends with the terminator behind which it was cut,
\* there are as many such segments as terminators in the text, no segment
\* has a terminator anywhere but at its end, and the segments, one after the
\* other in their order, are the text up to blanks.
C28_CutAfterTerminators ==
    cpc = "sentences" =>
        /\ Len(sentences) = Terminators(text) + 1
        /\ \A k \in 1..(Len(sentences) - 1) :
              /\ sentences[k] # <<>>
              /\ IsTerminator(sentences[k][Len(sentences[k])])
        /\ \A k \in 1..Len(sentences) :
              \A j \in 1..(Len(sentences[k]) - 1) :
                  ~IsTerminator(sentences[k][j])
        /\ StripSpace(Flatten(sentences)) = StripSpace(text)

\* C29: a chunk that is empty or holds only blanks makes generateTTSAudio
\* return an error before any request is sent and before the output file is
\* created; generateTTSAudioParallel returns this error like that of any
\* other failed call, tagged with the chunk.
C29_BlankRejected ==
    /\ (\A j \in 1..Len(text) : IsSpace(text[j])) =>
          /\ requests = 0
          /\ outFile = "absent"
          /\ gpc \notin {"key", "request", "create", "copy"}
          /\ gpc \in {"returned", "handled"} => gerr = "Empty text chunk"
          /\ Returned => ret = [files |-> <<>>, err |-> [chunk |-> 1]]
    /\ (gpc = "handled" /\ gerr # "nil") =>
          /\ Failed = {0}
          /\ audioFiles[0] = 0
          /\ progress + completed = 0
          /\ Returned => ret = [files |-> <<>>, err |-> [chunk |-> 1]]

\* C29's case: generateTTSAudioParallel has returned the error of a chunk of
\* several blanks
C29_Witness ==
    /\ gpc = "handled"
    /\ Len(text) > 1
    /\ \A j \in 1..Len(text) : IsSpace(text[j])
    /\ gerr = "Empty text chunk"
    /\ Returned
    /\ ret.err = [chunk |-> 1]
    /\ requests = 0

\* C30: in the sequential main the chunks are synthesised one at a time in
\* the order of their index: a chunk is in its call only when every chunk
\* before it has succeeded and none after it has been called; the first call
\* that fails ends the run: no later chunk is synthesised and
\* concatenateMP3Files is not called.
C30_SequentialAbort ==
    /\ Cardinality(InCall) <= 1
    /\ \A i \in Indices :
          /\ calls[i] <= 1
          /\ calls[i] = 1 =>
                /\ \A j \in 0..(i - 1) : outcome[j] = "ok"
                /\ \A j \in (i + 1)..(n - 1) :
                      outcome[i] # "ok" => calls[j] = 0
    /\ (Failed # {} /\ mpc # "seq_test") =>
          /\ mpc = "exited"
          /\ exit = "fail"
    /\ Failed # {} =>
          /\ Cardinality(Failed) = 1
          /\ ~final.created
          /\ ret.files = <<>>
          /\ \A i \in Indices : \A f \in Failed : i > f => calls[i] = 0

\* C30's case: the run has ended on the failure of a chunk in the middle:
\* the chunks before it are synthesised, those after it are not
C30_Witness ==
    /\ exit = "fail"
    /\ \E f \in Failed :
          /\ f > 0
          /\ f < n - 1
          /\ outcome[f - 1] = "ok"
          /\ ChunkFile(f - 1) \in DOMAIN disk
          /\ calls[f + 1] = 0

\* C31: in main, a text with zero chunks, the empty text and a text of blanks
\* among them, is rejected by no stage: generateTTSAudio is not called,
\* generateTTSAudioParallel returns no error and main goes on to
\* concatenateMP3Files, which creates the final file and copies nothing into
\* it; the run ends as a success with an empty final file, or fails only
\* because tmpDir or the final file could not be created.
C31_EmptyRunSucceeds ==
    /\ ((\A j \in 1..Len(text) : IsSpace(text[j])) /\ mpc # "split") => n = 0
    /\ (n = 0 /\ mpc # "split") =>
          /\ DOMAIN calls = {}
          /\ disk = <<>>
          /\ Returned => ~ParallelFailed
          /\ mpc \in {"asm_copy", "finish"} =>
                final = [created |-> TRUE, data |-> <<>>]
          /\ exit = "ok" =>
                /\ final = [created |-> TRUE, data |-> <<>>]
                /\ tmpDir = "removed"
          /\ exit = "fail" =>
                /\ ~final.created
                /\ ret.err = NoError
                /\ tmpDir = "none" \/ (tmpDir = "exists" /\ opc = "done")

\* C31's case: the run of main on a text of several blanks has ended as a
\* success with the final file created and empty
C31_Witness ==
    /\ Len(text) > 1
    /\ \A j \in 1..Len(text) : IsSpace(text[j])
    /\ cpc = "chunks"
    /\ n = 0
    /\ exit = "ok"
    /\ final = [created |-> TRUE, data |-> <<>>]

-----------------------------------------------------------------------------
(* generatePodcastText: the first attempt and the extension                 *)

MaxDuration == 5
MaxPad == 1
WPM == 178

\* estimatedDuration < targetDuration*0.9, with
\* estimatedDuration = float64(actualWords) / WPM: in integers
TooShort(actualWords, targetDuration) ==
    10 * actualWords < 9 * WPM * targetDuration

\* the word counts next to 90% of a target, and a text of one word
WordCounts(targetDuration) ==
    {w \in {1} \cup {((9 * WPM * targetDuration) \div 10) + d : d \in (-1)..1} :
        w >= 1}

\* the texts generateText can return for a target: content is not empty and
\* ends with the end word; bytes is len(content)
FirstTexts(targetDuration) ==
    {[id |-> "first", words |-> w, bytes |-> (2 * w - 1) + p] :
        w \in WordCounts(targetDuration), p \in 0..MaxPad}

\* the Text of the first Content element of an extension response
ExtensionTexts(old) ==
    {NoText} \cup
    {[id |-> "extension", words |-> w, bytes |-> 2 * w - 1] :
        w \in {old.words, old.words + 1}}

\* what makes generateText return "", err before and after client.Do(req)
PrepareErrors == {"marshal", "new request"}
ResponseErrors ==
    {"transport", "API request failed", "decode",
     "no text returned by the model", "unexpected content format from API",
     "no text content in response"}

\* what makes the extension keep content, before and after client.Do(req)
ExtensionFailures ==
    {"marshal", "new request", "transport", "status", "decode", "no choices"}

GenReturn(t, err) ==
    /\ genRet' = [text |-> t, err |-> err]
    /\ xpc' = "done"

InitGen ==
    /\ cpc = "off" /\ text = <<>> /\ maxSize = 1
    /\ sentences = <<>> /\ chunks = <<>>
    /\ TTSIdle
    /\ PipeIdle
    /\ xpc = "key"
    /\ sent = 0
    /\ duration \in 0..MaxDuration
    /\ firstOutcome = "none" /\ firstText = NoText /\ content = NoText
    /\ extOutcome = "none"
    /\ genRet = [text |-> NoText, err |-> "none"]

\* apiKey := os.Getenv("OPENAI_API_KEY"); if apiKey == "" { return "", ... }
GenGetKey ==
    /\ xpc = "key"
    /\ \/ xpc' = "first" /\ UNCHANGED genRet
       \/ GenReturn(NoText, "API key not found")
    /\ UNCHANGED <<sent, duration, firstOutcome, firstText, content,
                   extOutcome, chunkVars, pipeVars, ttsVars>>

\* content, err := generateText(0); if err != nil { return "", err }
GenFirstAttempt ==
    /\ xpc = "first"
    /\ \/ \E e \in PrepareErrors :
            /\ firstOutcome' = e
            /\ GenReturn(NoText, e)
            /\ UNCHANGED <<sent, firstText, content>>
       \/ \E e \in ResponseErrors :
            /\ sent' = sent + 1
            /\ firstOutcome' = e
            /\ GenReturn(NoText, e)
            /\ UNCHANGED <<firstText, content>>
       \/ \E t \in FirstTexts(duration) :
            /\ sent' = sent + 1
            /\ firstOutcome' = "ok"
            /\ firstText' = t
            /\ content' = t
            /\ xpc' = "check"
            /\ UNCHANGED genRet
    /\ UNCHANGED <<duration, extOutcome, chunkVars, pipeVars, ttsVars>>

\* if estimatedDuration < targetDuration*0.9 { ... }; return content, nil
GenCheckDuration ==
    /\ xpc = "check"
    /\ IF TooShort(content.words, duration)
          THEN xpc' = "extend" /\ UNCHANGED genRet
          ELSE GenReturn(content, "nil")
    /\ UNCHANGED <<sent, duration, firstOutcome, firstText, content,
                   extOutcome, chunkVars, pipeVars, ttsVars>>

\* a failed step of the extension returns the failure
OnExtensionFailureReturnsError(reason) ==
    /\ extOutcome' = reason
    /\ UNCHANGED content
    /\ GenReturn(NoText, reason)

\* every err == nil, StatusOK and Decode test of the extension only guards
\* the assignment to content: a failed step leaves content as it is
OnExtensionFailure(reason) ==
    /\ extOutcome' = reason
    /\ UNCHANGED <<content, genRet>>
    /\ xpc' = "return"

\* the extension: Marshal, NewRequest, client.Do, StatusOK, Decode,
\* len(Choices) > 0 and len(Choices[0].Message.Content) > len(content)
GenExtend ==
    /\ xpc = "extend"
    /\ \/ \E reason \in {"marshal", "new request"} :
            /\ OnExtensionFailure(reason)
            /\ UNCHANGED sent
       \/ \E reason \in ExtensionFailures \ {"marshal", "new request"} :
            /\ sent' = sent + 1
            /\ OnExtensionFailure(reason)
       \/ \E items \in {0, 1, content.bytes, content.bytes + 1} :
          \E t \in ExtensionTexts(content) :
            /\ sent' = sent + 1
            /\ IF items > content.bytes
                  THEN extOutcome' = "accepted" /\ content' = t
                  ELSE extOutcome' = "rejected" /\ UNCHANGED content
            /\ xpc' = "return"
            /\ UNCHANGED genRet
    /\ UNCHANGED <<duration, firstOutcome, firstText, chunkVars, pipeVars,
                   ttsVars>>

\* return content, nil
GenEnd ==
    /\ xpc = "return"
    /\ GenReturn(content, "nil")
    /\ UNCHANGED <<sent, duration, firstOutcome, firstText, content,
                   extOutcome, chunkVars, pipeVars, ttsVars>>

NextGen ==
    \/ GenGetKey
    \/ GenFirstAttempt
    \/ GenCheckDuration
    \/ GenExtend
    \/ GenEnd

SpecGen == InitGen /\ [][NextGen]_vars

\* the call has returned
GenReturned == xpc = "done"

\* C32: generatePodcastText sends at most two generation requests, the first
\* attempt's and at most one for the extension, and the extension is tried
\* only when the first text is shorter than 90% of the target duration; a
\* failure of the first attempt is returned as the error, with no text; a
\* failure of any step of the extension leaves content equal to the first
\* attempt's text, and the call returns that text with a nil error
C32_ExtensionFailureKeepsFirstText ==
    /\ sent <= 2
    /\ sent = 2 => extOutcome # "none"
    /\ xpc = "extend" \/ extOutcome # "none" =>
          /\ firstOutcome = "ok"
          /\ sent >= 1
          /\ TooShort(firstText.words, duration)
    /\ firstOutcome \notin {"none", "ok"} =>
          /\ GenReturned
          /\ genRet = [text |-> NoText, err |-> firstOutcome]
          /\ extOutcome = "none"
          /\ sent <= 1
    /\ extOutcome \in ExtensionFailures =>
          /\ content = firstText
          /\ firstText \in FirstTexts(duration)
          /\ ~GenReturned => genRet.err = "none"
          /\ GenReturned => genRet = [text |-> firstText, err |-> "nil"]

\* C32's case: the extension request was sent and failed, and the call has
\* returned the first attempt's text without an error
C32_Witness ==
    /\ GenReturned
    /\ sent = 2
    /\ extOutcome \in {"transport", "status", "decode", "no choices"}
    /\ firstText \in FirstTexts(duration)
    /\ genRet = [text |-> firstText, err |-> "nil"]

====
